---- MODULE Spec2Model ----
(***************************************************************************)
(* A model of event_server.py: the Slack event endpoint (main), the        *)
(* bounded ledger of written event ids (History), the dispatcher (write),  *)
(* the command parser (parse), the executor (execute) and the notifier     *)
(* (post).                                                                 *)
(*                                                                         *)
(* A text is a sequence of one-character strings; a token is a sequence of *)
(* characters; a command is a sequence of tokens.  The ideographic space   *)
(* U+3000 is written FWSpace.                                              *)
(***************************************************************************)
EXTENDS Integers, Sequences, FiniteSets, TLC

\* ------------------------------------------------------------------ bounds
\* History.hist_size is 100 in the source (line 86); the model runs the same
\* code with a small capacity so that eviction happens within the bounds.
hist_size == 2
\* flows of write that exist at the same time (background tasks)
NumFlows == 2
\* History driven directly: number of add calls, and how long items may grow
MaxCalls == 5

\* ------------------------------------------------------------- characters
FWSpace == "U+3000"
DQuote == "\""
SQuote == "'"
Backslash == "\\"

\* shlex.whitespace (the characters of it that occur in the modelled texts)
Whitespace == {" "}
\* shlex.quotes
Quotes == {DQuote, SQuote}
\* shlex.escape
Escape == {Backslash}
\* shlex.escapedquotes
EscapedQuotes == {DQuote}

\* ------------------------------------------------------------------ parse

\* index of the first ">" at or after position i, 0 when there is none
RECURSIVE FirstClose(_, _)
FirstClose(text, i) ==
    IF i > Len(text) THEN 0
    ELSE IF text[i] = ">" THEN i
    ELSE FirstClose(text, i + 1)

\* re.sub(r"^<@[^>]*>", "", text)
StripMention(text) ==
    IF Len(text) >= 3 /\ text[1] = "<" /\ text[2] = "@" /\ FirstClose(text, 3) > 0
    THEN SubSeq(text, FirstClose(text, 3) + 1, Len(text))
    ELSE text

\* re.sub(U+3000, " ", text)
NormalizeSpace(text) ==
    [i \in 1..Len(text) |-> IF text[i] = FWSpace THEN " " ELSE text[i]]

RECURSIVE LStrip(_)
LStrip(text) ==
    IF text # <<>> /\ text[1] \in Whitespace \cup {FWSpace}
    THEN LStrip(Tail(text))
    ELSE text

RECURSIVE RStrip(_)
RStrip(text) ==
    IF text # <<>> /\ text[Len(text)] \in Whitespace \cup {FWSpace}
    THEN RStrip(SubSeq(text, 1, Len(text) - 1))
    ELSE text

\* text.strip()
Strip(text) == RStrip(LStrip(text))

\* The value of a tokenization: the tokens, or raised = TRUE for ValueError.
LexOk(tokens) == [raised |-> FALSE, tokens |-> tokens]
LexRaise == [raised |-> TRUE, tokens |-> <<>>]

\* shlex.shlex(text, posix=True) with whitespace_split = True and no
\* commenters, read to the end (shlex.split).  state is " " (between tokens),
\* "a" (in a word), a quote character or an escape character, as in
\* shlex.read_token; quoted says whether the current token had a quote.
RECURSIVE ShlexRead(_, _, _, _, _, _, _)
ShlexRead(text, i, state, escapedstate, token, quoted, out) ==
    LET emit == IF token # <<>> \/ quoted THEN Append(out, token) ELSE out
        eof == i > Len(text)
        c == text[i]
    IN
    IF state = " " THEN
        IF eof THEN LexOk(out)
        ELSE IF c \in Whitespace THEN
            ShlexRead(text, i + 1, " ", escapedstate, <<>>, FALSE, out)
        ELSE IF c \in Escape THEN
            ShlexRead(text, i + 1, c, "a", <<>>, FALSE, out)
        ELSE IF c \in Quotes THEN
            ShlexRead(text, i + 1, c, escapedstate, <<>>, FALSE, out)
        ELSE
            ShlexRead(text, i + 1, "a", escapedstate, <<c>>, FALSE, out)
    ELSE IF state \in Quotes THEN
        IF eof THEN LexRaise                        \* No closing quotation
        ELSE IF c = state THEN
            ShlexRead(text, i + 1, "a", escapedstate, token, TRUE, out)
        ELSE IF c \in Escape /\ state \in EscapedQuotes THEN
            ShlexRead(text, i + 1, c, state, token, TRUE, out)
        ELSE
            ShlexRead(text, i + 1, state, escapedstate, Append(token, c), TRUE, out)
    ELSE IF state \in Escape THEN
        IF eof THEN LexRaise                        \* No escaped character
        ELSE IF escapedstate \in Quotes /\ c # state /\ c # escapedstate THEN
            ShlexRead(text, i + 1, escapedstate, escapedstate,
                      Append(Append(token, state), c), quoted, out)
        ELSE
            ShlexRead(text, i + 1, escapedstate, escapedstate,
                      Append(token, c), quoted, out)
    ELSE \* state = "a"
        IF eof THEN LexOk(emit)
        ELSE IF c \in Whitespace THEN
            ShlexRead(text, i + 1, " ", escapedstate, <<>>, FALSE, emit)
        ELSE IF c \in Quotes THEN
            ShlexRead(text, i + 1, c, escapedstate, token, quoted, out)
        ELSE IF c \in Escape THEN
            ShlexRead(text, i + 1, c, "a", token, quoted, out)
        ELSE
            ShlexRead(text, i + 1, "a", escapedstate, Append(token, c), quoted, out)

\* shlex.split(text)
ShlexSplit(text) == ShlexRead(text, 1, " ", "a", <<>>, FALSE, <<>>)

\* parse(text): the commands, or raised = TRUE when shlex.split raises
parse(text) == ShlexSplit(Strip(NormalizeSpace(StripMention(text))))


\* ---------------------------------------------------------------- inputs
EventIds == {"Ev1", "Ev2", "Ev3", "Ev4"}

\* item.event.text of the delivered events
TextLs == <<"<", "@", "U", ">", " ", "l", "s">>
TextLsWide == <<"<", "@", "U", ">", FWSpace, "l", "s", FWSpace, "-", "a">>
TextRm == <<"<", "@", "U", ">", " ", "r", "m">>
TextPrefix == <<"l">>
TextEcho == <<"e", "c", "h", "o">>
TextEmpty == <<"<", "@", "U", ">", " ">>
TextOpenQuote == <<"<", "@", "U", ">", " ", DQuote, "l", "s">>
Texts == {TextLs, TextLsWide, TextRm, TextPrefix, TextEcho, TextEmpty, TextOpenQuote}

\* command.allows of conf.toml: lists of program names
AllowLists == {{<<"l", "s">>}, {<<"l", "s">>, <<"e", "c", "h", "o">>}}

\* what subprocess.run and proc.stdout.decode() can do
ProcOutcomes == {"exit_zero", "exit_nonzero", "spawn_error", "decode_error"}
\* what requests.post can do: a response of any status, or an exception
PostOutcomes == {"ok", "http_error", "raise"}

Flows == 1..NumFlows

\* ----------------------------------------------------------------- state
VARIABLES
    allows,     \* config.get('command', 'allows')
    items,      \* History.items
    items_set,  \* History.items_set
    pc,         \* per flow: where the background task write(item) stands
    item,       \* per flow: the EventBox, as [event_id, text]
    command,    \* per flow: the value parse returned
    result,     \* per flow: the Result execute returned
    fault,      \* per flow: the call out of which an exception left write
    ran,        \* per flow: the argv given to subprocess.run, <<>> when none
    note,       \* per flow: the payload given to requests.post, <<>> when none
    written,    \* ids for which some write reached its last line
    age,        \* per id: completed History.add calls since its own, capped
    aborted,    \* ids for which some write was left by an exception
    proc,       \* per flow: what the spawned process did, "none" when none
    removing,   \* per flow: the local remove_item of History.add
    tmp,        \* per flow: the value of cls.items[1:] before it is stored
    response,   \* the request main answered last, and its answer
    calls,      \* History driven directly: the ids given to add, in order
    lastAdd     \* History driven directly: how the last add ended

ledger == <<items, items_set>>
flowvars == <<pc, item, command, result, fault, ran, note, proc, removing, tmp>>
addlocals == <<removing, tmp>>
ghosts == <<written, age, aborted>>
driver == <<calls, lastAdd>>
vars == <<allows, items, items_set, pc, item, command, result, fault, ran, note,
          written, age, aborted, calls, lastAdd, proc, removing, tmp, response>>

\* ---------------------------------------------------------------- Result
NoData == [kind |-> "none", arg |-> <<>>]
NoResult == [is_success |-> FALSE, is_failed |-> FALSE, data |-> NoData]

\* Result.success(data)
success(data) == [is_success |-> TRUE, is_failed |-> FALSE, data |-> data]
\* Result.failed(data)
failed(data) == [is_success |-> FALSE, is_failed |-> TRUE, data |-> data]

\* f"Error: {command[0]} is not allowed"
NotAllowedMsg(token) == [kind |-> "not_allowed", arg |-> token]
\* "Error: Something wrong?"
SomethingWrongMsg == [kind |-> "something_wrong", arg |-> <<>>]
\* proc.stdout.decode()
StdoutText(cmd) == [kind |-> "stdout", arg |-> cmd[1]]

\* --------------------------------------------------------------- History

\* History.contains(item)
contains(set, id) == id \in set

\* History.add with the length test written >= : the ledger holds one id less
HistoryAddEager(its, set, id) ==
    LET appended == Append(its, id)
        inserted == set \cup {id}
        remove_item == appended[1]
    IN  IF Len(appended) >= hist_size
        THEN IF remove_item \in inserted
             THEN [items |-> Tail(appended),
                   items_set |-> inserted \ {remove_item},
                   raised |-> FALSE]
             ELSE [items |-> appended, items_set |-> inserted, raised |-> TRUE]
        ELSE [items |-> appended, items_set |-> inserted, raised |-> FALSE]

\* History.add(item) run from its first line to its last, or to the KeyError
\* of items_set.remove when items[0] is not in the set (raised = TRUE: the
\* append and the set insertion are done, the reassignment of items is not).
HistoryAdd(its, set, id) ==
    LET appended == Append(its, id)
        inserted == set \cup {id}
        remove_item == appended[1]
    IN  IF Len(appended) > hist_size
        THEN IF remove_item \in inserted
             THEN [items |-> Tail(appended),
                   items_set |-> inserted \ {remove_item},
                   raised |-> FALSE]
             ELSE [items |-> appended, items_set |-> inserted, raised |-> TRUE]
        ELSE [items |-> appended, items_set |-> inserted, raised |-> FALSE]

\* --------------------------------------------------------------- execute

IsPrefix(a, b) == Len(a) <= Len(b) /\ SubSeq(b, 1, Len(a)) = a

\* the allowlist test as a prefix match against the entries
AllowedPrefix(token, allowlist) == \E a \in allowlist : IsPrefix(token, a)

\* command[0] in allows
Allowed(token, allowlist) == token \in allowlist

\* execute treating a non-zero exit status as a failure (check=True)
executeCheckExit(cmd, allowlist, outcome) ==
    IF Len(cmd) = 0
    THEN [raised |-> TRUE, result |-> NoResult, argv |-> <<>>]
    ELSE IF ~Allowed(cmd[1], allowlist)
    THEN [raised |-> FALSE, result |-> failed(NotAllowedMsg(cmd[1])), argv |-> <<>>]
    ELSE IF outcome = "exit_zero"
    THEN [raised |-> FALSE, result |-> success(StdoutText(cmd)), argv |-> <<cmd>>]
    ELSE [raised |-> FALSE, result |-> failed(SomethingWrongMsg), argv |-> <<cmd>>]

\* execute(command) with the outcome of the spawned process chosen by the
\* environment: raised (the assert on an empty command), or a Result; argv is
\* <<command>> when subprocess.run was called.
execute(cmd, allowlist, outcome) ==
    IF Len(cmd) = 0
    THEN [raised |-> TRUE, result |-> NoResult, argv |-> <<>>]
    ELSE IF ~Allowed(cmd[1], allowlist)
    THEN [raised |-> FALSE, result |-> failed(NotAllowedMsg(cmd[1])), argv |-> <<>>]
    ELSE IF outcome \in {"exit_zero", "exit_nonzero"}
    THEN [raised |-> FALSE, result |-> success(StdoutText(cmd)), argv |-> <<cmd>>]
    ELSE [raised |-> FALSE, result |-> failed(SomethingWrongMsg), argv |-> <<cmd>>]

\* ------------------------------------------------------------------ post

\* the color and the field value of the payload post builds
Payload(res) ==
    [color |-> IF res.is_success THEN "#202020" ELSE "#f02020",
     value |-> res.data]

\* ------------------------------------------------------- requests to main
\* the body of a request as FastAPI hands it to main: a Challenge, an
\* EventBox, or anything else
ChallengePayload(c) == [shape |-> "challenge", challenge |-> c, event_id |-> "", text |-> <<>>]
EventBoxPayload(id, text) == [shape |-> "event", challenge |-> "", event_id |-> id, text |-> text]
UnknownPayload(id, text) == [shape |-> "unknown", challenge |-> "", event_id |-> id, text |-> text]
NoPayload == [shape |-> "none", challenge |-> "", event_id |-> "", text |-> <<>>]

\* return {}
EmptyBody == "{}"
Answer(payload, body) == [request |-> payload, body |-> body]
NoResponse == Answer(NoPayload, "")

\* ------------------------------------------------------------------ Init
Init ==
    /\ allows \in AllowLists
    /\ items = <<>>
    /\ items_set = {}
    /\ pc = [f \in Flows |-> "idle"]
    /\ item = [f \in Flows |-> [event_id |-> "Ev1", text |-> <<>>]]
    /\ command = [f \in Flows |-> <<>>]
    /\ result = [f \in Flows |-> NoResult]
    /\ fault = [f \in Flows |-> "none"]
    /\ ran = [f \in Flows |-> <<>>]
    /\ note = [f \in Flows |-> <<>>]
    /\ written = {}
    /\ age = [i \in EventIds |-> hist_size]
    /\ aborted = {}
    /\ proc = [f \in Flows |-> "none"]
    /\ removing = [f \in Flows |-> "Ev1"]
    /\ tmp = [f \in Flows |-> <<>>]
    /\ response = NoResponse
    /\ calls = <<>>
    /\ lastAdd = "none"

\* ------------------------------------------------------------------ main
Free(f) == pc[f] \in {"idle", "done", "raised"}
Running(f) == ~Free(f)

\* the slot a newly scheduled task takes: the lowest free one
FreeSlot == CHOOSE f \in Flows : Free(f) /\ \A g \in Flows : Free(g) => f <= g

Schedule(f, id, text) ==
    /\ pc' = [pc EXCEPT ![f] = "received"]
    /\ item' = [item EXCEPT ![f] = [event_id |-> id, text |-> text]]
    /\ command' = [command EXCEPT ![f] = <<>>]
    /\ result' = [result EXCEPT ![f] = NoResult]
    /\ fault' = [fault EXCEPT ![f] = "none"]
    /\ ran' = [ran EXCEPT ![f] = <<>>]
    /\ note' = [note EXCEPT ![f] = <<>>]
    /\ proc' = [proc EXCEPT ![f] = "none"]
    /\ removing' = [removing EXCEPT ![f] = "Ev1"]
    /\ tmp' = [tmp EXCEPT ![f] = <<>>]

\* main with an EventBox: background.add_task(write, item).  The tasks run
\* one at a time: a task is scheduled when no other is running.
MainEvent(id, text) ==
    /\ \A g \in Flows : Free(g)
    /\ Schedule(FreeSlot, id, text)
    /\ response' = Answer(EventBoxPayload(id, text), EmptyBody)
    /\ UNCHANGED <<allows, ledger, ghosts, driver>>

\* main with a Challenge (lines 68-70): return item.challenge
MainChallenge(c) ==
    /\ response' = Answer(ChallengePayload(c), c)
    /\ UNCHANGED <<allows, ledger, flowvars, ghosts, driver>>

\* main scheduling write for a body that is no EventBox
MainUnknownDispatch(id, text) ==
    /\ response' = Answer(UnknownPayload(id, text), EmptyBody)
    /\ IF \A g \in Flows : Free(g)
       THEN Schedule(FreeSlot, id, text)
       ELSE UNCHANGED flowvars
    /\ UNCHANGED <<allows, ledger, ghosts, driver>>

\* main with any other body (lines 77-79): log and return {}
MainUnknown(id, text) ==
    /\ response' = Answer(UnknownPayload(id, text), EmptyBody)
    /\ UNCHANGED <<allows, ledger, flowvars, ghosts, driver>>

\* ----------------------------------------------------------------- write

\* write marking the id before it processes the event
WriteCheckMarkFirst(f) ==
    /\ pc[f] = "received"
    /\ IF contains(items_set, item[f].event_id)
       THEN /\ pc' = [pc EXCEPT ![f] = "duplicate"]
            /\ UNCHANGED ledger
       ELSE /\ pc' = [pc EXCEPT ![f] = "parse"]
            /\ items' = HistoryAdd(items, items_set, item[f].event_id).items
            /\ items_set' = HistoryAdd(items, items_set, item[f].event_id).items_set
    /\ UNCHANGED <<allows, item, command, result, fault, ran, note, ghosts, driver>>
    /\ UNCHANGED <<proc, addlocals, response>>

\* write testing the ledger for another field of the event: never a hit
WriteCheckNoSkip(f) ==
    /\ pc[f] = "received"
    /\ pc' = [pc EXCEPT ![f] = "parse"]
    /\ UNCHANGED <<allows, ledger, item, command, result, fault, ran, note,
                   ghosts, driver>>
    /\ UNCHANGED <<proc, addlocals, response>>

\* line 105: if History.contains(item.event_id)
WriteCheck(f) ==
    /\ pc[f] = "received"
    /\ pc' = [pc EXCEPT ![f] =
                IF contains(items_set, item[f].event_id) THEN "duplicate" ELSE "parse"]
    /\ UNCHANGED <<allows, ledger, item, command, result, fault, ran, note,
                   ghosts, driver>>
    /\ UNCHANGED <<proc, addlocals, response>>

\* the duplicate branch moving the id to the tail of items (LRU)
WriteSkipRefresh(f) ==
    /\ pc[f] = "duplicate"
    /\ pc' = [pc EXCEPT ![f] = "done"]
    /\ items' = Append(SelectSeq(items, LAMBDA i : i # item[f].event_id),
                       item[f].event_id)
    /\ UNCHANGED <<allows, items_set, item, command, result, fault, ran, note,
                   ghosts, driver>>
    /\ UNCHANGED <<proc, addlocals, response>>

\* lines 106-107: log and return
WriteSkip(f) ==
    /\ pc[f] = "duplicate"
    /\ pc' = [pc EXCEPT ![f] = "done"]
    /\ UNCHANGED <<allows, ledger, item, command, result, fault, ran, note,
                   ghosts, driver>>
    /\ UNCHANGED <<proc, addlocals, response>>

\* line 109, the argument: parse(item.event.text)
WriteParse(f) ==
    /\ pc[f] = "parse"
    /\ LET p == parse(item[f].text)
       IN  IF p.raised
           THEN /\ pc' = [pc EXCEPT ![f] = "raised"]
                /\ fault' = [fault EXCEPT ![f] = "parse"]
                /\ aborted' = aborted \cup {item[f].event_id}
                /\ UNCHANGED command
           ELSE /\ pc' = [pc EXCEPT ![f] = "execute"]
                /\ command' = [command EXCEPT ![f] = p.tokens]
                /\ UNCHANGED <<fault, aborted>>
    /\ UNCHANGED <<allows, ledger, item, result, ran, note, written, age, driver>>
    /\ UNCHANGED <<proc, addlocals, response>>

\* line 109: result = execute(...)
WriteExecute(f) ==
    /\ pc[f] = "execute"
    /\ \E outcome \in ProcOutcomes :
         LET e == execute(command[f], allows, outcome)
         IN  /\ ran' = [ran EXCEPT ![f] = e.argv]
             /\ proc' = [proc EXCEPT ![f] = IF e.argv = <<>> THEN "none" ELSE outcome]
             /\ IF e.raised
                THEN /\ pc' = [pc EXCEPT ![f] = "raised"]
                     /\ fault' = [fault EXCEPT ![f] = "execute"]
                     /\ aborted' = aborted \cup {item[f].event_id}
                     /\ UNCHANGED result
                ELSE /\ pc' = [pc EXCEPT ![f] = "post"]
                     /\ result' = [result EXCEPT ![f] = e.result]
                     /\ UNCHANGED <<fault, aborted>>
    /\ UNCHANGED <<allows, ledger, item, command, note, written, age, driver>>
    /\ UNCHANGED <<addlocals, response>>

\* write calling execute and post again when the POST raised
WritePostRetry(f) ==
    /\ pc[f] = "post"
    /\ \E outcome \in PostOutcomes :
         /\ note' = [note EXCEPT ![f] = <<[payload |-> Payload(result[f]),
                                          outcome |-> outcome]>>]
         /\ pc' = [pc EXCEPT ![f] = IF outcome = "raise" THEN "execute" ELSE "add"]
    /\ UNCHANGED <<allows, ledger, item, command, result, ran, written, age, driver>>
    /\ UNCHANGED <<fault, aborted, proc, addlocals, response>>

\* line 110: post(result); requests.post may raise
WritePost(f) ==
    /\ pc[f] = "post"
    /\ \E outcome \in PostOutcomes :
         /\ note' = [note EXCEPT ![f] = <<[payload |-> Payload(result[f]),
                                          outcome |-> outcome]>>]
         /\ IF outcome = "raise"
            THEN /\ pc' = [pc EXCEPT ![f] = "raised"]
                 /\ fault' = [fault EXCEPT ![f] = "post"]
                 /\ aborted' = aborted \cup {item[f].event_id}
            ELSE /\ pc' = [pc EXCEPT ![f] = "add"]
                 /\ UNCHANGED <<fault, aborted>>
    /\ UNCHANGED <<allows, ledger, item, command, result, ran, written, age, driver>>
    /\ UNCHANGED <<proc, addlocals, response>>

Min(a, b) == IF a < b THEN a ELSE b

\* lines 112-113: History.add(item.event_id), log, return
WriteAdd(f) ==
    /\ pc[f] = "add"
    /\ LET a == HistoryAdd(items, items_set, item[f].event_id)
       IN  /\ items' = a.items
           /\ items_set' = a.items_set
           /\ IF a.raised
              THEN /\ pc' = [pc EXCEPT ![f] = "raised"]
                   /\ fault' = [fault EXCEPT ![f] = "add"]
                   /\ aborted' = aborted \cup {item[f].event_id}
                   /\ UNCHANGED <<written, age>>
              ELSE /\ pc' = [pc EXCEPT ![f] = "done"]
                   /\ written' = written \cup {item[f].event_id}
                   /\ age' = [i \in EventIds |->
                                IF i = item[f].event_id THEN 0
                                ELSE Min(age[i] + 1, hist_size)]
                   /\ UNCHANGED <<fault, aborted>>
    /\ UNCHANGED <<allows, item, command, result, ran, note, driver>>
    /\ UNCHANGED <<proc, addlocals, response>>

Next ==
    \/ \E id \in EventIds, text \in Texts : MainEvent(id, text)
    \/ \E f \in Flows : WriteCheck(f)
    \/ \E f \in Flows : WriteSkip(f)
    \/ \E f \in Flows : WriteParse(f)
    \/ \E f \in Flows : WriteExecute(f)
    \/ \E f \in Flows : WritePost(f)
    \/ \E f \in Flows : WriteAdd(f)

Spec == Init /\ [][Next]_vars

\* ------------------------------------------- main with every kind of body
\* item.challenge of the handshakes
Challenges == {"c1", "c2"}
\* the texts of the events delivered between the other requests
MainTexts == {TextLs, TextOpenQuote}
\* bodies that are neither a Challenge nor an EventBox (say an envelope with
\* a field missing): what they carry as event id and text
UnknownIds == {"Ev1", "Ev2"}

NextMain ==
    \/ \E c \in Challenges : MainChallenge(c)
    \/ \E id \in UnknownIds : MainUnknown(id, TextLs)
    \/ \E id \in EventIds, text \in MainTexts : MainEvent(id, text)
    \/ \E f \in Flows : WriteCheck(f)
    \/ \E f \in Flows : WriteSkip(f)
    \/ \E f \in Flows : WriteParse(f)
    \/ \E f \in Flows : WriteExecute(f)
    \/ \E f \in Flows : WritePost(f)
    \/ \E f \in Flows : WriteAdd(f)

SpecMain == Init /\ [][NextMain]_vars

\* ------------------------------------------------ writes run concurrently
\* write is a plain function, so each background task runs in a thread of the
\* pool and the tasks of different requests interleave between statements.
\* History.add is then taken statement by statement, and line 99 in two
\* steps: the slice cls.items[1:] is built, then stored.
ConcFlows == {1, 2}
ConcIds == {"Ev1", "Ev2"}
ConcTexts == {TextLs}
\* the ids written, one write at a time, before the concurrent requests
EarlierIds == EventIds \ ConcIds

\* position of id in the sequence s of distinct ids
IndexOf(s, id) == CHOOSE k \in 1..Len(s) : s[k] = id

\* the ledgers left by writes of earlier ids run one at a time
EarlierLedgers ==
    {s \in UNION {[1..n -> EarlierIds] : n \in 0..hist_size} :
        \A i, j \in 1..Len(s) : i # j => s[i] # s[j]}

InitConc ==
    /\ allows \in AllowLists
    /\ items \in EarlierLedgers
    /\ items_set = {items[i] : i \in 1..Len(items)}
    /\ pc = [f \in Flows |-> "idle"]
    /\ item = [f \in Flows |-> [event_id |-> "Ev1", text |-> <<>>]]
    /\ command = [f \in Flows |-> <<>>]
    /\ result = [f \in Flows |-> NoResult]
    /\ fault = [f \in Flows |-> "none"]
    /\ ran = [f \in Flows |-> <<>>]
    /\ note = [f \in Flows |-> <<>>]
    /\ written = items_set
    /\ age = [i \in EventIds |->
                IF i \in items_set THEN Len(items) - IndexOf(items, i) ELSE hist_size]
    /\ aborted = {}
    /\ proc = [f \in Flows |-> "none"]
    /\ removing = [f \in Flows |-> "Ev1"]
    /\ tmp = [f \in Flows |-> <<>>]
    /\ response = NoResponse
    /\ calls = <<>>
    /\ lastAdd = "none"

\* the slot of a new task: the lowest one never used
IdleSlot == CHOOSE f \in ConcFlows :
                pc[f] = "idle" /\ \A g \in ConcFlows : pc[g] = "idle" => f <= g

\* main with an EventBox, whatever the other tasks are doing
MainEventConc(id, text) ==
    /\ \E f \in ConcFlows : pc[f] = "idle"
    /\ Schedule(IdleSlot, id, text)
    /\ response' = Answer(EventBoxPayload(id, text), EmptyBody)
    /\ UNCHANGED <<allows, ledger, ghosts, driver>>

\* line 94: cls.items.append(item)
AddAppend(f) ==
    /\ pc[f] = "add"
    /\ items' = Append(items, item[f].event_id)
    /\ pc' = [pc EXCEPT ![f] = "add_insert"]
    /\ UNCHANGED <<allows, items_set, item, command, result, fault, ran, note,
                   ghosts, driver, proc, addlocals, response>>

\* line 95: cls.items_set.add(item)
AddInsert(f) ==
    /\ pc[f] = "add_insert"
    /\ items_set' = items_set \cup {item[f].event_id}
    /\ pc' = [pc EXCEPT ![f] = "add_test"]
    /\ UNCHANGED <<allows, items, item, command, result, fault, ran, note,
                   ghosts, driver, proc, addlocals, response>>

\* add returns and write logs at line 113
Marked(f) ==
    /\ pc' = [pc EXCEPT ![f] = "done"]
    /\ written' = written \cup {item[f].event_id}
    /\ age' = [i \in EventIds |->
                 IF i = item[f].event_id THEN 0 ELSE Min(age[i] + 1, hist_size)]
    /\ UNCHANGED <<fault, aborted>>

\* an exception leaves add, and write with it
AddRaised(f) ==
    /\ pc' = [pc EXCEPT ![f] = "raised"]
    /\ fault' = [fault EXCEPT ![f] = "add"]
    /\ aborted' = aborted \cup {item[f].event_id}
    /\ UNCHANGED <<written, age>>

\* line 96: if len(cls.items) > cls.hist_size
AddTest(f) ==
    /\ pc[f] = "add_test"
    /\ IF Len(items) > hist_size
       THEN /\ pc' = [pc EXCEPT ![f] = "add_pick"]
            /\ UNCHANGED <<fault, ghosts>>
       ELSE Marked(f)
    /\ UNCHANGED <<allows, ledger, item, command, result, ran, note,
                   driver, proc, addlocals, response>>

\* line 97: remove_item = cls.items[0]
AddPick(f) ==
    /\ pc[f] = "add_pick"
    /\ IF items = <<>>
       THEN /\ AddRaised(f)
            /\ UNCHANGED removing
       ELSE /\ removing' = [removing EXCEPT ![f] = items[1]]
            /\ pc' = [pc EXCEPT ![f] = "add_remove"]
            /\ UNCHANGED <<fault, ghosts>>
    /\ UNCHANGED <<allows, ledger, item, command, result, ran, note,
                   driver, proc, tmp, response>>

\* line 98: cls.items_set.remove(remove_item), KeyError when it is not there
AddRemove(f) ==
    /\ pc[f] = "add_remove"
    /\ IF removing[f] \in items_set
       THEN /\ items_set' = items_set \ {removing[f]}
            /\ pc' = [pc EXCEPT ![f] = "add_slice"]
            /\ UNCHANGED <<fault, ghosts>>
       ELSE /\ AddRaised(f)
            /\ UNCHANGED items_set
    /\ UNCHANGED <<allows, items, item, command, result, ran, note,
                   driver, proc, addlocals, response>>

\* line 99, right-hand side: cls.items[1:]
AddSlice(f) ==
    /\ pc[f] = "add_slice"
    /\ tmp' = [tmp EXCEPT ![f] = IF items = <<>> THEN <<>> ELSE Tail(items)]
    /\ pc' = [pc EXCEPT ![f] = "add_store"]
    /\ UNCHANGED <<allows, ledger, item, command, result, fault, ran, note,
                   ghosts, driver, proc, removing, response>>

\* line 99, the assignment: cls.items = ...; add returns
AddStore(f) ==
    /\ pc[f] = "add_store"
    /\ items' = tmp[f]
    /\ Marked(f)
    /\ UNCHANGED <<allows, items_set, item, command, result, ran, note,
                   driver, proc, addlocals, response>>

NextConc ==
    \/ \E id \in ConcIds, text \in ConcTexts : MainEventConc(id, text)
    \/ \E f \in ConcFlows : WriteCheck(f)
    \/ \E f \in ConcFlows : WriteSkip(f)
    \/ \E f \in ConcFlows : WriteParse(f)
    \/ \E f \in ConcFlows : WriteExecute(f)
    \/ \E f \in ConcFlows : WritePost(f)
    \/ \E f \in ConcFlows : AddAppend(f)
    \/ \E f \in ConcFlows : AddInsert(f)
    \/ \E f \in ConcFlows : AddTest(f)
    \/ \E f \in ConcFlows : AddPick(f)
    \/ \E f \in ConcFlows : AddRemove(f)
    \/ \E f \in ConcFlows : AddSlice(f)
    \/ \E f \in ConcFlows : AddStore(f)

SpecConc == InitConc /\ [][NextConc]_vars

\* ------------------------------------------------- History driven directly
\* History.add called with any id, as a caller of the class may: ids repeat
\* (write calls add with an id already added when two tasks for the same id
\* both pass line 105 before either reaches line 112).
Add(id) ==
    /\ Len(calls) < MaxCalls
    /\ LET a == HistoryAdd(items, items_set, id)
       IN  /\ items' = a.items
           /\ items_set' = a.items_set
           /\ lastAdd' = IF a.raised THEN "raised" ELSE "returned"
    /\ calls' = Append(calls, id)
    /\ UNCHANGED <<allows, flowvars, ghosts, response>>

NextHist == \E id \in EventIds : Add(id)

SpecHist == Init /\ [][NextHist]_vars

\* ================================================================ claims

Range(s) == {s[i] : i \in 1..Len(s)}
EventId(f) == item[f].event_id
\* the flow is past the contains test and on its way through parse, execute,
\* post and add
Processing(f) == pc[f] \in {"parse", "execute", "post", "add"}
\* execute has returned a Result in this flow
Executed(f) == result[f] # NoResult

\* C1: every argv handed to subprocess.run starts with a token that is an
\* entry of command.allows, and a command whose first token is no entry of
\* it gets a failed Result and no subprocess.run.
C1_SpawnOnlyAllowlisted ==
    \A f \in Flows :
        /\ ran[f] # <<>> => (ran[f][1] # <<>> /\ ran[f][1][1] \in allows)
        /\ (Executed(f) /\ command[f] # <<>> /\ command[f][1] \notin allows)
             => (result[f].is_failed /\ ~result[f].is_success /\ ran[f] = <<>>)

\* a proper prefix of an allowlisted name was refused, with no spawn
C1_Witness ==
    \E f \in Flows :
        /\ pc[f] = "post"
        /\ command[f] = <<<<"l">>>>
        /\ <<"l", "s">> \in allows
        /\ result[f] = failed(NotAllowedMsg(<<"l">>))
        /\ ran[f] = <<>>

\* C2 (as stated): no delivery of an id for which a write has completed is
\* taken into processing, whatever was delivered in between.
C2_NeverProcessedAgain ==
    \A f \in Flows : Processing(f) => EventId(f) \notin written

\* C2 (amended): no delivery of an id for which a write has completed is
\* taken into processing while the id is in the ledger, which it is as long
\* as fewer than hist_size other ids were marked after it.
C2_NotProcessedWhileInLedger ==
    \A f \in Flows :
        Processing(f) =>
            ~(/\ EventId(f) \in written
              /\ (EventId(f) \in items_set \/ age[EventId(f)] < hist_size))

\* a written id is delivered again after hist_size - 1 other marks and skipped
C2_Witness ==
    \E f \in Flows :
        /\ pc[f] = "done"
        /\ EventId(f) \in written
        /\ age[EventId(f)] = hist_size - 1
        /\ ~Executed(f)
        /\ note[f] = <<>>

\* C3: items_set holds exactly the ids that occur in items.
C3_SetEqualsSequence == items_set = Range(items)

\* the n most recently added distinct ids of the calls s
RECURSIVE MostRecentDistinct(_, _, _)
MostRecentDistinct(s, n, acc) ==
    IF s = <<>> \/ Cardinality(acc) = n THEN acc
    ELSE MostRecentDistinct(SubSeq(s, 1, Len(s) - 1), n, acc \cup {s[Len(s)]})

\* C4: after more than hist_size add calls the ledger holds exactly the
\* hist_size most recently added distinct ids.
C4_RetainsMostRecent ==
    (Len(calls) > hist_size /\ lastAdd = "returned")
        => items_set = MostRecentDistinct(calls, hist_size, {})

LastCall(s, id) == CHOOSE k \in 1..Len(s) : s[k] = id /\ \A j \in (k+1)..Len(s) : s[j] # id
\* the distinct ids added after the last add of id
DistinctSince(s, id) == {s[j] : j \in (LastCall(s, id) + 1)..Len(s)}

\* C5: after an add returns, every id added is contained as long as fewer
\* than hist_size distinct ids were added after its add; in particular the
\* id just added is contained.
C5_ContainedUntilEvicted ==
    lastAdd = "returned" =>
        \A id \in Range(calls) :
            Cardinality(DistinctSince(calls, id)) < hist_size => contains(items_set, id)

\* C6: after every add that returned, items holds at most hist_size ids.
C6_LengthBounded == lastAdd = "returned" => Len(items) <= hist_size

\* C7: a step of a flow whose id is in the ledger, from the contains test to
\* the return, leaves items and items_set as they are and parses, executes
\* and posts nothing.
C7_DuplicateSkips ==
    [][\A f \in Flows :
          (pc[f] \in {"received", "duplicate"} /\ EventId(f) \in items_set
             /\ pc'[f] # pc[f])
          => /\ pc'[f] = (IF pc[f] = "received" THEN "duplicate" ELSE "done")
             /\ items' = items
             /\ items_set' = items_set
             /\ command'[f] = <<>>
             /\ ~Executed(f)'
             /\ ran'[f] = <<>>
             /\ note'[f] = <<>>]_vars

\* a delivery of the oldest id of a full ledger was skipped: the id is still
\* the oldest
C7_Witness ==
    \E f \in Flows :
        /\ pc[f] = "done"
        /\ ~Executed(f)
        /\ note[f] = <<>>
        /\ Len(items) = hist_size
        /\ items[1] = EventId(f)
        /\ EventId(f) \in items_set

\* the last step of a write that parsed, executed and notified
MarkStep(f) ==
    /\ pc[f] = "add"
    /\ pc'[f] = "done"
    /\ Executed(f)
    /\ note[f] # <<>>
    /\ note[f][1].outcome # "raise"
    /\ items_set' \subseteq items_set \cup {EventId(f)}

\* C8: the ledger changes only in the last step of a write that has parsed,
\* executed and notified, and the id of a write left by an exception in
\* parse, execute or post is not in the ledger.
C8_MarkedLast ==
    /\ [](\A f \in Flows :
            (pc[f] = "raised" /\ fault[f] \in {"parse", "execute", "post"})
                => EventId(f) \notin items_set)
    /\ [][(items' # items \/ items_set' # items_set)
             => \E f \in Flows : MarkStep(f)]_vars

\* an id whose write was left by an exception is delivered again and executed
C8_Witness ==
    \E f \in Flows :
        /\ pc[f] = "post"
        /\ Executed(f)
        /\ EventId(f) \in aborted
        /\ EventId(f) \notin written
        /\ EventId(f) \notin items_set

\* C9: no exception leaves execute.
C9_ExecuteNeverRaises == \A f \in Flows : fault[f] # "execute"

\* C10: a write whose text does not tokenize posts a failed Result.
C10_ParseFailurePosted ==
    \A f \in Flows :
        (pc[f] \in {"done", "raised"} /\ parse(item[f].text).raised
           /\ EventId(f) \notin items_set)
        => (note[f] # <<>> /\ note[f][1].payload.color = "#f02020")

\* C11: a write whose POST failed (an error status or an exception) still
\* ends at its last line with the id in the ledger.
C11_PostFailureNotSurfaced ==
    \A f \in Flows :
        (Free(f) /\ note[f] # <<>> /\ note[f][1].outcome \in {"http_error", "raise"})
        => (pc[f] = "done" /\ fault[f] = "none" /\ EventId(f) \in items_set)

\* C13: a write that met a parse failure, an invalid command or an execution
\* failure has given a failed Result to post.
C13_ErrorsPosted ==
    \A f \in Flows :
        (\/ fault[f] \in {"parse", "execute"}
         \/ (Executed(f) /\ result[f].is_failed /\ pc[f] # "post"))
        => (/\ note[f] # <<>>
            /\ note[f][1].payload = Payload(result[f])
            /\ note[f][1].payload.color = "#f02020")

\* C14: a write whose execute returned a failed Result ends with one
\* notification given to post and with the id in the ledger.
C14_FailureReportedOnce ==
    \A f \in Flows :
        (Free(f) /\ Executed(f) /\ result[f].is_failed)
        => (/\ note[f] # <<>>
            /\ note[f][1].payload = Payload(result[f])
            /\ pc[f] = "done"
            /\ EventId(f) \in items_set)

\* C15: no write ends otherwise than at its return (Done), unless the POST
\* did not return.
C15_ReachesDone ==
    \A f \in Flows : pc[f] = "raised" => fault[f] = "post"

\* C16: for a command that was given to subprocess.run, a process that ran to
\* its end with any exit status gives Result.success with its stdout, and a
\* failure to spawn or to decode gives Result.failed("Error: Something wrong?").
C16_ExitStatusIgnored ==
    \A f \in Flows :
        (ran[f] # <<>> /\ Executed(f)) =>
            /\ ran[f][1] = command[f]
            /\ proc[f] \in {"exit_zero", "exit_nonzero"}
                 => result[f] = success(StdoutText(command[f]))
            /\ proc[f] \in {"spawn_error", "decode_error"}
                 => result[f] = failed(SomethingWrongMsg)

\* a process that ended with a non-zero status was reported as a success
C16_Witness ==
    \E f \in Flows :
        /\ pc[f] = "add"
        /\ proc[f] = "exit_nonzero"
        /\ result[f].is_success
        /\ note[f] # <<>>
        /\ note[f][1].payload.color = "#202020"

\* C18: with the writes run one at a time, History.add is called only with an
\* id that is neither in items_set nor in items, items never holds an id
\* twice, the head of items is in items_set, and no add raises.
C18_AddOnlyNewIds ==
    /\ \A f \in Flows :
         /\ pc[f] = "add" => (EventId(f) \notin items_set /\ EventId(f) \notin Range(items))
         /\ fault[f] # "add"
    /\ Cardinality(Range(items)) = Len(items)
    /\ items # <<>> => items[1] \in items_set

\* an add has evicted: more ids were written than the ledger holds
C18_Witness ==
    /\ Cardinality(written) > hist_size
    /\ Len(items) = hist_size
    /\ \E f \in Flows : pc[f] = "done" /\ Executed(f) /\ items[Len(items)] = EventId(f)

\* C17: a Challenge is answered with its challenge, any body that is no
\* EventBox with {}, and answering either leaves the tasks (none scheduled,
\* nothing executed, nothing posted) and the ledger as they are.
C17_OnlyEventsDispatch ==
    /\ [](response.request.shape = "challenge"
            => response.body = response.request.challenge)
    /\ [](response.request.shape = "unknown" => response.body = EmptyBody)
    /\ [][(response' # response /\ response'.request.shape \in {"challenge", "unknown"})
            => UNCHANGED <<items, items_set, pc, item, command, result, fault,
                           ran, note, proc, written, aborted>>]_vars

\* a handshake was answered while a write was on its way and the ledger held
\* an id
C17_Witness ==
    /\ response = Answer(ChallengePayload("c2"), "c2")
    /\ items # <<>>
    /\ \E f \in Flows : pc[f] = "post"

\* the flow is between the first and the last statement of History.add
InAdd(f) ==
    pc[f] \in {"add_insert", "add_test", "add_pick", "add_remove", "add_slice", "add_store"}

\* C12: at most one flow is inside a ledger operation at any time.
C12_LedgerSerialized == Cardinality({f \in Flows : InAdd(f)}) <= 1

\* every concurrent write has ended
Quiet == \A f \in ConcFlows : pc[f] \in {"done", "raised"}

\* C19: when the concurrent writes have all ended, items_set holds exactly
\* the ids of items, items holds at most hist_size ids, the id of every
\* write that returned from add is in items, and no add raised.
C19_LedgerConsistent ==
    Quiet =>
        /\ items_set = Range(items)
        /\ Len(items) <= hist_size
        /\ \A f \in ConcFlows : fault[f] # "add"
        /\ \A f \in ConcFlows :
             (pc[f] = "done" /\ note[f] # <<>>) => EventId(f) \in Range(items)

\* C20 (as stated): of two writes for the same id that are under way at the
\* same time, at most one has executed and at most one has posted.
C20_OverlapExecutedOnce ==
    \A f, g \in Flows :
        (f # g /\ Running(f) /\ Running(g) /\ EventId(f) = EventId(g))
        => (~(Executed(f) /\ Executed(g)) /\ ~(note[f] # <<>> /\ note[g] # <<>>))

\* C20 (amended): each delivery executes and posts at most once (what
\* execute returned and what was given to post never change afterwards), a
\* delivery whose contains test finds the id in items_set executes and posts
\* nothing, and every other delivery goes on to parse and execute.
C20_OncePerDelivery ==
    /\ [][\A f \in Flows :
            /\ Executed(f) => (result'[f] = result[f] /\ ran'[f] = ran[f])
            /\ note[f] # <<>> => note'[f] = note[f]
            /\ (pc[f] = "received" /\ pc'[f] # "received")
                 => pc'[f] = (IF EventId(f) \in items_set THEN "duplicate" ELSE "parse")
         ]_vars
    /\ [](\A f \in Flows :
            pc[f] = "duplicate" => (~Executed(f) /\ ran[f] = <<>> /\ note[f] = <<>>))

\* two deliveries of one id overlapped, and both executed and posted
C20_Witness ==
    \E f, g \in ConcFlows :
        /\ f # g
        /\ EventId(f) = EventId(g)
        /\ pc[f] = "add" /\ pc[g] = "add"
        /\ Executed(f) /\ Executed(g)
        /\ note[f] # <<>> /\ note[g] # <<>>
        /\ EventId(f) \notin items_set

====
